---- MODULE Spec2Model ----
(***************************************************************************)
(* BufferedReader (src/BufferedReader/src/lib.rs): a buffered byte reader  *)
(* over an arbitrary source, with mark / reset.                            *)
(*                                                                         *)
(* Indices are 0-based in the source and 1-based in TLA+ sequences: the    *)
(* byte buf[i] of the source is buf[i+1] here; pos, cap and mark keep the  *)
(* source's 0-based values.                                                *)
(***************************************************************************)
EXTENDS Integers, Sequences, FiniteSets, TLC

\* ---- bounds of the model ----
MaxSrc == 3        \* longest source content
MaxCap == 2        \* largest initial capacity given to with_capacity
MaxTarget == 3     \* longest target slice handed to read
MaxLimit == 2      \* largest read_limit handed to mark
MaxAmt == 2        \* largest amount handed to consume
MaxCapReads == 3   \* largest initial capacity in the runs made of reads only

\* ---- sentinels of the program ----
Unset == -1        \* mark: -1 means no mark
Err == -1          \* outcome of a source call that fails with io::Error

VARIABLES
    content,       \* the bytes the source holds in total (fixed per run)
    srcPos,        \* inner: how many bytes the source has handed out
    buf,           \* self.buf
    pos,           \* self.pos
    cap,           \* self.cap
    mark,          \* self.mark
    ahead,         \* self.ahead
    op,            \* the last call made on the reader
    arg,           \* its argument (target length, read_limit, amt)
    ok,            \* the call returned Ok
    ret,           \* the count returned by read (0 for the other calls)
    out,           \* the bytes read copied into target[0..ret]
    srcErr,        \* the source failed during the call
    srcCalls,      \* number of source calls made by the call
    filled,        \* a refill completed (the source returned Ok) in the call
    panicked,      \* the call panicked (slice index out of range)
    hadMark,       \* a mark was set when the call was made
    grew,          \* the call reallocated the buffer to a greater length
    tick,          \* parity of the number of calls made
    off,           \* number of bytes the reads have delivered in total
    markL,         \* read_limit of the last mark call (-1: never called)
    pastMark,      \* how far the cursor was advanced past the mark point
    sinceMark,     \* the bytes delivered or skipped since the mark point
    srcSinceMark,  \* the source was called since the last mark call returned
    rewound,       \* how far the last call, a reset, moved the cursor back
    plain          \* a second reader over the same content, given the reads only

rdVars == <<srcPos, buf, pos, cap, mark, ahead>>
callVars == <<op, arg, ok, ret, out, srcErr, srcCalls, filled, panicked, hadMark,
             grew>>
ghostVars == <<markL, pastMark, sinceMark, srcSinceMark, rewound>>
vars == <<content, rdVars, callVars, ghostVars, tick, off, plain>>

Min(a, b) == IF a < b THEN a ELSE b

\* the bytes s[from..to] of the source's 0-based half-open range
Slice(s, from, to) == SubSeq(s, from + 1, to)

\* first n elements of s
Trunc(s, n) == IF Len(s) > n THEN SubSeq(s, 1, n) ELSE s

\* the source content: n distinct bytes (the code never inspects a byte)
Contents == { [i \in 1..n |-> i] : n \in 0..MaxSrc }

\* the reader's fields as a record
Reader == [buf |-> buf, pos |-> pos, cap |-> cap, mark |-> mark,
           ahead |-> ahead, srcPos |-> srcPos]

\* with_capacity: a zeroed buffer of the capacity, nothing buffered, no mark
with_capacity(capacity) ==
    [buf |-> [i \in 1..capacity |-> 0], pos |-> 0, cap |-> 0,
     mark |-> Unset, ahead |-> 0, srcPos |-> 0]

\* buffer(): &self.buf[self.pos..self.cap]
buffer(rd) == Slice(rd.buf, rd.pos, rd.cap)

\* resize_buf that allocates a fresh zeroed buffer
resize_buf_fresh(rd, new_length) ==
    [rd EXCEPT !.buf = [i \in 1..new_length |-> 0]]

\* resize_buf: to_vec, resize_with(new_length, Default), into_boxed_slice
resize_buf(rd, new_length) ==
    [rd EXCEPT !.buf = [i \in 1..new_length |->
                           IF i <= Len(rd.buf) THEN rd.buf[i] ELSE 0]]

\* slice::copy_within(p.., 0): move b[p..] to the front, rest untouched
copy_within(b, p) ==
    [i \in 1..Len(b) |-> IF i <= Len(b) - p THEN b[i + p] ELSE b[i]]

\* inner.read(&mut buf[from..]) returning Ok(n): the next n source bytes
\* are written at buf[from..from+n]
inner_read(rd, b, from, n) ==
    [i \in 1..Len(b) |->
        IF from < i /\ i <= from + n THEN content[rd.srcPos + (i - from)]
        ELSE b[i]]

\* length of the region fill_buf hands to the source
fill_region(rd) ==
    IF rd.pos >= rd.cap THEN Len(rd.buf) ELSE Len(rd.buf) - rd.cap

\* what a source may answer for a region of length len: an error, or any
\* count from 0 to the bytes it has left, at most len
AnyOutcomes(rd, len) ==
    {Err} \cup (0..Min(len, Len(content) - rd.srcPos))

\* Read for &[u8]: as many bytes as fit, never an error
SliceOutcome(rd, len) == Min(len, Len(content) - rd.srcPos)

\* fill_buf whose partial refill keeps the mark
fill_buf_keepmark(rd, o) ==
    IF rd.pos >= rd.cap
    THEN IF o = Err THEN rd
         ELSE [rd EXCEPT !.buf = inner_read(rd, rd.buf, 0, o),
                         !.cap = o, !.pos = 0, !.mark = Unset,
                         !.srcPos = @ + o]
    ELSE LET shifted == copy_within(rd.buf, rd.pos)
         IN IF o = Err THEN [rd EXCEPT !.buf = shifted]
            ELSE [rd EXCEPT !.buf = inner_read(rd, shifted, rd.cap, o),
                            !.cap = @ + o, !.pos = 0,
                            !.srcPos = @ + o]

\* fill_buf with the source answering o
fill_buf(rd, o) ==
    IF rd.pos >= rd.cap
    THEN IF o = Err THEN rd
         ELSE [rd EXCEPT !.buf = inner_read(rd, rd.buf, 0, o),
                         !.cap = o, !.pos = 0, !.mark = Unset,
                         !.srcPos = @ + o]
    ELSE LET shifted == copy_within(rd.buf, rd.pos)
         IN IF o = Err THEN [rd EXCEPT !.buf = shifted]
            ELSE [rd EXCEPT !.buf = inner_read(rd, shifted, rd.cap, o),
                            !.cap = @ + o, !.pos = 0, !.mark = Unset,
                            !.srcPos = @ + o]

\* consume that clamps to the length of the buffer instead of cap
consume_clamplen(rd, amt) ==
    LET p == Min(rd.pos + amt, Len(rd.buf))
    IN [rd EXCEPT !.pos = p,
                  !.mark = IF rd.mark > -1 /\ p > rd.mark + rd.ahead
                           THEN Unset ELSE rd.mark]

\* consume that never invalidates the mark
consume_keepmark(rd, amt) ==
    [rd EXCEPT !.pos = Min(rd.pos + amt, rd.cap)]

\* consume that tests the limit on the cursor before it advances it
consume_checkfirst(rd, amt) ==
    [rd EXCEPT !.pos = Min(rd.pos + amt, rd.cap),
               !.mark = IF rd.mark > -1 /\ rd.pos > rd.mark + rd.ahead
                        THEN Unset ELSE rd.mark]

\* consume that gives the mark up as soon as the limit is reached
consume_atlimit(rd, amt) ==
    LET p == Min(rd.pos + amt, rd.cap)
    IN [rd EXCEPT !.pos = p,
                  !.mark = IF rd.mark > -1 /\ p >= rd.mark + rd.ahead
                           THEN Unset ELSE rd.mark]

\* consume
consume(rd, amt) ==
    LET p == Min(rd.pos + amt, rd.cap)
    IN [rd EXCEPT !.pos = p,
                  !.mark = IF rd.mark > -1 /\ p > rd.mark + rd.ahead
                           THEN Unset ELSE rd.mark]

\* the outcome of a call: the reader after it and what the caller observes;
\* passed: the bytes handed to the caller or skipped; adv: cursor advance
Result(rd, okv, retv, outv, calls, err, pan, passed, adv) ==
    [rd |-> rd, ok |-> okv, ret |-> retv, out |-> outv, calls |-> calls,
     err |-> err, filled |-> (calls > 0 /\ ~err), panicked |-> pan,
     passed |-> passed, adv |-> adv]

\* does read(target of length t) call the source
read_fills(rd, t) ==
    LET r1 == IF t > Len(rd.buf) THEN resize_buf(rd, t) ELSE rd
    IN (r1.cap - r1.pos) < t

\* the region read(target of length t) hands to the source when it fills
read_region(rd, t) ==
    fill_region(IF t > Len(rd.buf) THEN resize_buf(rd, t) ELSE rd)

\* read that asks the source again when one fill left the target uncovered
read_retry(rd, t, o) ==
    LET r1 == IF t > Len(rd.buf) THEN resize_buf(rd, t) ELSE rd
        need == (r1.cap - r1.pos) < t
        f1 == IF need THEN fill_buf(r1, o) ELSE r1
        again == need /\ o # Err /\ f1.cap < t
        r2 == IF again THEN fill_buf(f1, SliceOutcome(f1, fill_region(f1))) ELSE f1
        min_length == Min(r2.cap, t)
        pan == r2.pos + min_length > Len(r2.buf)
        r3 == consume(r2, min_length)
        calls == IF again THEN 2 ELSE IF need THEN 1 ELSE 0
        err == need /\ o = Err
    IN IF pan
       THEN Result(r2, FALSE, 0, <<>>, calls, err, TRUE, <<>>, 0)
       ELSE Result(r3, TRUE, min_length,
                   Slice(r2.buf, r2.pos, r2.pos + min_length),
                   calls, err, FALSE,
                   Slice(r2.buf, r2.pos, r2.pos + min_length),
                   r3.pos - r2.pos)

\* read that also fills when the buffered bytes just cover the target
read_eagerfill(rd, t, o) ==
    LET r1 == IF t > Len(rd.buf) THEN resize_buf(rd, t) ELSE rd
        need == (r1.cap - r1.pos) <= t
        r2 == IF need THEN fill_buf(r1, o) ELSE r1
        min_length == Min(r2.cap, t)
        pan == r2.pos + min_length > Len(r2.buf)
        r3 == consume(r2, min_length)
        calls == IF need THEN 1 ELSE 0
        err == need /\ o = Err
    IN IF pan
       THEN Result(r2, FALSE, 0, <<>>, calls, err, TRUE, <<>>, 0)
       ELSE Result(r3, TRUE, min_length,
                   Slice(r2.buf, r2.pos, r2.pos + min_length),
                   calls, err, FALSE,
                   Slice(r2.buf, r2.pos, r2.pos + min_length),
                   r3.pos - r2.pos)

\* read(&mut target) with target.len() = t, the source answering o if asked
read(rd, t, o) ==
    LET r1 == IF t > Len(rd.buf) THEN resize_buf(rd, t) ELSE rd
        need == (r1.cap - r1.pos) < t
        r2 == IF need THEN fill_buf(r1, o) ELSE r1
        min_length == Min(r2.cap, t)
        starting_index == r2.pos
        ending_index == r2.pos + min_length
        pan == ending_index > Len(r2.buf)
        r3 == consume(r2, min_length)
        calls == IF need THEN 1 ELSE 0
        err == need /\ o = Err
    IN IF pan
       THEN Result(r2, FALSE, 0, <<>>, calls, err, TRUE, <<>>, 0)
       ELSE Result(r3, TRUE, min_length,
                   Slice(r2.buf, starting_index, ending_index),
                   calls, err, FALSE,
                   Slice(r2.buf, starting_index, ending_index),
                   r3.pos - r2.pos)

\* reset that rewinds to the start of the buffer
reset_tozero(rd) ==
    IF rd.mark >= 0 THEN [rd EXCEPT !.pos = 0] ELSE rd

\* reset that forgets the mark once it has rewound to it
reset_once(rd) ==
    IF rd.mark >= 0 THEN [rd EXCEPT !.pos = rd.mark, !.mark = Unset] ELSE rd

\* reset
reset(rd) ==
    IF rd.mark >= 0 THEN [rd EXCEPT !.pos = rd.mark] ELSE rd

\* does mark(read_limit) call the source
mark_fills(rd, read_limit) ==
    LET r1 == IF read_limit > Len(rd.buf) THEN resize_buf(rd, read_limit) ELSE rd
    IN (r1.cap - r1.pos) < read_limit

\* the region mark(read_limit) hands to the source when it fills
mark_region(rd, read_limit) ==
    fill_region(IF read_limit > Len(rd.buf) THEN resize_buf(rd, read_limit) ELSE rd)

\* mark that records the mark before it fills
mark_early(rd, read_limit, o) ==
    LET r1 == IF read_limit > Len(rd.buf) THEN resize_buf(rd, read_limit) ELSE rd
        need == (r1.cap - r1.pos) < read_limit
        r2 == [r1 EXCEPT !.mark = r1.pos, !.ahead = read_limit]
        r3 == IF need THEN fill_buf(r2, o) ELSE r2
    IN Result(r3, TRUE, 0, <<>>, IF need THEN 1 ELSE 0, need /\ o = Err,
              FALSE, <<>>, 0)

\* mark(read_limit), the source answering o if asked; the result of
\* fill_buf is dropped (let _ =) and Ok(()) is returned
mark_(rd, read_limit, o) ==
    LET r1 == IF read_limit > Len(rd.buf) THEN resize_buf(rd, read_limit) ELSE rd
        need == (r1.cap - r1.pos) < read_limit
        r2 == IF need THEN fill_buf(r1, o) ELSE r1
        r3 == [r2 EXCEPT !.mark = r2.pos, !.ahead = read_limit]
    IN Result(r3, TRUE, 0, <<>>, IF need THEN 1 ELSE 0, need /\ o = Err,
              FALSE, <<>>, 0)

\* ---- the state machine ----

\* the reader after a call, and the call as its caller observed it
Step(name, a, res) ==
    /\ buf' = res.rd.buf
    /\ pos' = res.rd.pos
    /\ cap' = res.rd.cap
    /\ mark' = res.rd.mark
    /\ ahead' = res.rd.ahead
    /\ srcPos' = res.rd.srcPos
    /\ op' = name
    /\ arg' = a
    /\ ok' = res.ok
    /\ ret' = res.ret
    /\ out' = res.out
    /\ srcErr' = res.err
    /\ srcCalls' = res.calls
    /\ filled' = res.filled
    /\ panicked' = res.panicked
    /\ hadMark' = (mark >= 0)
    /\ grew' = (Len(res.rd.buf) > Len(buf))
    /\ UNCHANGED content

\* the reader after a call, and the account of what passed since the mark
StepMarked(name, a, res) ==
    /\ buf' = res.rd.buf
    /\ pos' = res.rd.pos
    /\ cap' = res.rd.cap
    /\ mark' = res.rd.mark
    /\ ahead' = res.rd.ahead
    /\ srcPos' = res.rd.srcPos
    /\ op' = name
    /\ panicked' = res.panicked
    /\ markL' = IF name = "mark" THEN a ELSE markL
    /\ pastMark' = IF name = "mark" \/ markL = -1 THEN 0
                   ELSE IF name = "reset" /\ mark >= 0 THEN 0
                   ELSE Min(pastMark + res.adv, markL + 1)
    /\ sinceMark' = IF name = "mark" \/ markL = -1 THEN <<>>
                    ELSE IF name = "reset" /\ mark >= 0 THEN <<>>
                    ELSE Trunc(sinceMark \o res.passed, markL)
    /\ srcSinceMark' = IF name = "mark" \/ markL = -1 THEN FALSE
                       ELSE srcSinceMark \/ res.calls > 0
    /\ rewound' = pos - res.rd.pos + res.adv
    /\ UNCHANGED <<content, arg, ok, ret, out, srcErr, srcCalls, filled, hadMark,
                   grew>>

\* BufferedReader::with_capacity(capacity, inner) over some content
InitWith(maxcap) ==
    /\ content \in Contents
    /\ \E capacity \in 0..maxcap :
          /\ buf = with_capacity(capacity).buf
          /\ plain = [rd |-> with_capacity(capacity), ret |-> 0, out |-> <<>>]
    /\ pos = 0 /\ cap = 0 /\ mark = Unset /\ ahead = 0 /\ srcPos = 0
    /\ op = "new" /\ arg = 0 /\ ok = TRUE /\ ret = 0 /\ out = <<>>
    /\ srcErr = FALSE /\ srcCalls = 0 /\ filled = FALSE /\ panicked = FALSE
    /\ hadMark = FALSE /\ grew = FALSE
    /\ tick = 0 /\ off = 0
    /\ markL = -1 /\ pastMark = 0 /\ sinceMark = <<>> /\ srcSinceMark = FALSE
    /\ rewound = 0

Init == InitWith(MaxCap)

\* read over an arbitrary source
Read ==
    /\ ~panicked
    /\ \E t \in 0..MaxTarget :
       \E o \in IF read_fills(Reader, t)
                THEN AnyOutcomes(Reader, read_region(Reader, t)) ELSE {0} :
          Step("read", t, read(Reader, t, o))
    /\ UNCHANGED <<ghostVars, tick, off, plain>>

\* mark over an arbitrary source
Mark ==
    /\ ~panicked
    /\ \E l \in 0..MaxLimit :
       \E o \in IF mark_fills(Reader, l)
                THEN AnyOutcomes(Reader, mark_region(Reader, l)) ELSE {0} :
          Step("mark", l, mark_(Reader, l, o))
    /\ UNCHANGED <<ghostVars, tick, off, plain>>

\* reset
Reset ==
    /\ ~panicked
    /\ Step("reset", 0, Result(reset(Reader), TRUE, 0, <<>>, 0, FALSE, FALSE,
                               <<>>, 0))
    /\ UNCHANGED <<ghostVars, tick, off, plain>>

\* fill_buf called directly (BufRead)
FillBuf ==
    /\ ~panicked
    /\ \E o \in AnyOutcomes(Reader, fill_region(Reader)) :
          Step("fill_buf", 0, Result(fill_buf(Reader, o), o # Err, 0, <<>>, 1,
                                     o = Err, FALSE, <<>>, 0))
    /\ UNCHANGED <<ghostVars, tick, off, plain>>

\* consume called directly (BufRead)
Consume ==
    /\ ~panicked
    /\ \E amt \in 0..MaxAmt :
          LET r == consume(Reader, amt)
          IN Step("consume", amt,
                  Result(r, TRUE, 0, <<>>, 0, FALSE, FALSE,
                         Slice(buf, pos, r.pos), r.pos - pos))
    /\ UNCHANGED <<ghostVars, tick, off, plain>>

Next == Read \/ Mark \/ Reset \/ FillBuf \/ Consume

Spec == Init /\ [][Next]_vars

\* ---- the same calls, with the account of the mark kept ----

MarkedRead ==
    /\ ~panicked
    /\ \E t \in 0..MaxTarget :
       \E o \in IF read_fills(Reader, t)
                THEN AnyOutcomes(Reader, read_region(Reader, t)) ELSE {0} :
          StepMarked("read", t, read(Reader, t, o))
    /\ UNCHANGED <<tick, off, plain>>

MarkedMark ==
    /\ ~panicked
    /\ \E l \in 0..MaxLimit :
       \E o \in IF mark_fills(Reader, l)
                THEN AnyOutcomes(Reader, mark_region(Reader, l)) ELSE {0} :
          StepMarked("mark", l, mark_(Reader, l, o))
    /\ UNCHANGED <<tick, off, plain>>

MarkedReset ==
    /\ ~panicked
    /\ StepMarked("reset", 0, Result(reset(Reader), TRUE, 0, <<>>, 0, FALSE,
                                     FALSE, <<>>, 0))
    /\ UNCHANGED <<tick, off, plain>>

MarkedFillBuf ==
    /\ ~panicked
    /\ \E o \in AnyOutcomes(Reader, fill_region(Reader)) :
          StepMarked("fill_buf", 0, Result(fill_buf(Reader, o), o # Err, 0, <<>>,
                                           1, o = Err, FALSE, <<>>, 0))
    /\ UNCHANGED <<tick, off, plain>>

MarkedConsume ==
    /\ ~panicked
    /\ \E amt \in 0..MaxAmt :
          LET r == consume(Reader, amt)
          IN StepMarked("consume", amt,
                        Result(r, TRUE, 0, <<>>, 0, FALSE, FALSE,
                               Slice(buf, pos, r.pos), r.pos - pos))
    /\ UNCHANGED <<tick, off, plain>>

NextMarked ==
    MarkedRead \/ MarkedMark \/ MarkedReset \/ MarkedFillBuf \/ MarkedConsume

SpecMarked == Init /\ [][NextMarked]_vars

\* ---- read calls only, over a &[u8] source ----

InitReads == InitWith(MaxCapReads)

SliceRead ==
    /\ ~panicked
    /\ \E t \in 0..MaxTarget :
          LET res == read(Reader, t, SliceOutcome(Reader, read_region(Reader, t)))
          IN /\ Step("read", t, res)
             /\ off' = Min(off + res.ret, MaxSrc + MaxTarget + 1)
    /\ UNCHANGED <<ghostVars, tick, plain>>

SpecReads == InitReads /\ [][SliceRead]_vars

\* read calls with non-empty targets, one after the other for ever
LiveRead ==
    /\ ~panicked
    /\ \E t \in 1..MaxTarget :
          Step("read", t, read(Reader, t, SliceOutcome(Reader, read_region(Reader, t))))
    /\ tick' = 1 - tick
    /\ UNCHANGED <<ghostVars, off, plain>>

LiveReads == InitReads /\ [][LiveRead]_vars /\ WF_vars(LiveRead)

\* ---- the same reads given to two readers, one of them also given marks ----

PairedRead ==
    /\ ~panicked
    /\ \E t \in 0..MaxTarget :
          LET res == read(Reader, t, SliceOutcome(Reader, read_region(Reader, t)))
              p == read(plain.rd, t, SliceOutcome(plain.rd, read_region(plain.rd, t)))
          IN /\ Step("read", t, res)
             /\ plain' = [rd |-> p.rd, ret |-> p.ret, out |-> p.out]
    /\ UNCHANGED <<ghostVars, tick, off>>

PairedMark ==
    /\ ~panicked
    /\ \E l \in 0..MaxLimit :
          Step("mark", l, mark_(Reader, l, SliceOutcome(Reader, mark_region(Reader, l))))
    /\ UNCHANGED <<ghostVars, tick, off, plain>>

NextPaired == PairedRead \/ PairedMark

SpecPaired == Init /\ [][NextPaired]_vars

\* ---- C1 ----
\* C1: over a source that never errors, the bytes every read delivers are
\* the source bytes that follow those delivered before: the concatenation
\* of the deliveries is a prefix of the source content
C1_ReadCorrectness ==
    op = "read" => (off <= Len(content) /\ out = Slice(content, off - ret, off))

\* ---- C2 ----
\* C2: after every call, 0 <= pos <= cap <= buf.length
C2_BufferBound == 0 <= pos /\ pos <= cap /\ cap <= Len(buf)

\* a call has moved the cursor and the source has failed or answered
C2_Witness == op = "consume" /\ arg > 0 /\ pos = cap /\ cap > 0

\* ---- C3 ----
\* C3 as stated: once mark(L) was called and fewer than L bytes were
\* delivered since, reset puts the cursor back on the marked position: the
\* bytes delivered since the mark are again the next unconsumed bytes
C3_RoundTrip ==
    [][(op' = "reset" /\ markL >= 0 /\ Len(sinceMark) < markL)
           => (/\ pos' + Len(sinceMark) <= cap'
               /\ Slice(buf', pos', pos' + Len(sinceMark)) = sinceMark)]_vars

\* C3 amended: the same, with pos back on the mark, provided no call made
\* since the mark call returned had to call the source
C3_RoundTripNoRefill ==
    [][(op' = "reset" /\ markL >= 0 /\ Len(sinceMark) < markL /\ ~srcSinceMark)
           => (/\ mark >= 0
               /\ pos' = mark
               /\ pos' + Len(sinceMark) <= cap'
               /\ Slice(buf', pos', pos' + Len(sinceMark)) = sinceMark)]_vars

\* a reset has rewound the cursor over bytes delivered within the limit
C3_Witness ==
    op = "reset" /\ rewound > 0 /\ rewound < markL /\ ~srcSinceMark /\ pos = mark

\* ---- C4 ----
\* C4: once the cursor was advanced more than L bytes past the point of
\* mark(L), with no later mark call, reset leaves pos unchanged
C4_MarkInvalidation ==
    [][(op' = "reset" /\ markL >= 0 /\ pastMark > markL) => pos' = pos]_vars

\* a reset was called after more than L bytes were consumed from the buffer
C4_Witness ==
    op = "reset" /\ markL >= 0 /\ pastMark > markL /\ ~srcSinceMark /\ pos > 0

\* ---- C5 ----
\* C5: after a call in which a refill completed, the mark that was set
\* before is gone (read and fill_buf leave no mark, mark leaves its own new
\* mark at pos), and a reset issued next does not move pos
C5_FillUnsetsMark ==
    filled => (/\ mark = IF op = "mark" THEN pos ELSE Unset
               /\ reset(Reader).pos = pos)

\* a read refilled while a mark was set and still within its limit
C5_Witness ==
    op = "read" /\ filled /\ hadMark /\ mark = Unset /\ pos > 0

\* ---- C6 ----
\* C6: a read or mark that grows the buffer while unconsumed bytes are
\* buffered keeps them as the first unconsumed bytes of the stream: the
\* read delivers them first, the mark leaves them at the front of buffer()
C6_GrowthPreserves ==
    [][(op' \in {"read", "mark"} /\ arg' > Len(buf) /\ pos < cap)
           => IF op' = "read"
              THEN /\ ok'
                   /\ ret' >= cap - pos
                   /\ SubSeq(out', 1, cap - pos) = buffer(Reader)
              ELSE /\ cap' - pos' >= cap - pos
                   /\ Slice(buf', pos', pos' + (cap - pos)) = buffer(Reader)]_vars

\* ---- C7 ----
\* C7: every read of the reader that is also given mark calls returns the
\* count and the bytes that the same read returns without the mark calls
C7_MarkTransparent ==
    op = "read" => (ret = plain.ret /\ out = plain.out)

\* ---- C8 ----
\* C8: reads with non-empty targets over a finite source eventually return
\* 0, and return 0 only once every source byte was handed out and consumed
C8_EndOfStream ==
    /\ <>(op = "read" /\ ret = 0)
    /\ []((op = "read" /\ ret = 0) => (srcPos = Len(content) /\ pos = cap))

\* ---- C9 ----
\* C9: when the source fails during the fill of mark, mark returns the error
C9_MarkPropagates ==
    (op = "mark" /\ srcErr) => ~ok

\* ---- C10 ----
\* C10: when the source fails during read, read returns Ok with a count of
\* at most the cap - pos bytes that were unconsumed, delivers exactly those
\* bytes in order and does not index out of range
C10_ReadFallsBack ==
    [][(op' = "read" /\ srcErr')
           => (/\ ~panicked'
               /\ ok'
               /\ ret' <= cap - pos
               /\ out' = Slice(buf, pos, pos + ret'))]_vars

\* ---- C11 ----
\* C11: reset returns Ok; it sets pos to the mark when one is set and
\* changes nothing otherwise; cap, ahead, mark, the buffer and the source
\* are left as they were and the source is not called
C11_ResetFrame ==
    [][op' = "reset"
           => (/\ ok' /\ ~panicked'
               /\ pos' = IF mark >= 0 THEN mark ELSE pos
               /\ cap' = cap /\ ahead' = ahead /\ mark' = mark
               /\ buf' = buf /\ srcPos' = srcPos /\ srcCalls' = 0)]_vars

\* a reset has put the cursor on a mark that lies inside the buffer
C11_Witness ==
    op = "reset" /\ hadMark /\ mark > 0 /\ pos = mark /\ pos < cap

\* ---- C12 ----
\* C12: whenever a mark is set it is not beyond the cursor: mark <= pos
C12_MarkNotAhead ==
    mark >= 0 => (mark <= pos /\ mark <= cap)

\* a mark survived a call in which the source failed, the cursor past it
C12_Witness ==
    op = "read" /\ srcErr /\ mark >= 0 /\ mark < pos

\* ---- C13 ----
\* C13: a fill_buf that runs with pos < cap and gets n bytes leaves pos = 0,
\* cap = (old cap - old pos) + n and buf[0..cap] = the bytes that were
\* unconsumed followed by the n new source bytes
C13_PartialRefillLayout ==
    [][(op' = "fill_buf" /\ filled' /\ pos < cap)
           => (/\ pos' = 0
               /\ cap' = (cap - pos) + (srcPos' - srcPos)
               /\ Slice(buf', 0, cap')
                    = buffer(Reader) \o Slice(content, srcPos, srcPos'))]_vars

\* ---- C14 ----
\* C14: whenever a mark is set the cursor is at most ahead bytes past it
C14_ReadLimit ==
    mark >= 0 => pos <= mark + ahead

\* a call has brought the cursor exactly ahead bytes past a mark still set
C14_Witness ==
    op \in {"read", "consume"} /\ mark >= 0 /\ ahead > 0 /\ pos = mark + ahead

\* ---- C15 ----
\* C15: consume(amount) sets pos to min(pos + amount, cap) and unsets a set
\* mark exactly when the new pos is greater than mark + ahead; cap, ahead,
\* the buffer and the source are unchanged
C15_Consume ==
    [][op' = "consume"
           => (/\ pos' = Min(pos + arg', cap)
               /\ mark' = IF mark >= 0 /\ pos' > mark + ahead THEN Unset ELSE mark
               /\ cap' = cap /\ ahead' = ahead /\ buf' = buf
               /\ srcPos' = srcPos /\ srcCalls' = 0)]_vars

\* a consume has advanced the cursor to exactly ahead bytes past the mark
\* and the mark is still set
C15_Witness ==
    op = "consume" /\ arg > 0 /\ hadMark /\ mark >= 0 /\ ahead > 0
        /\ pos = mark + ahead

\* ---- C16 ----
\* C16: a read whose target fits in the buffered unconsumed bytes does not
\* call the source, returns target.length, delivers buf[pos..pos+length],
\* advances pos by the length and leaves cap and the buffer unchanged; the
\* mark changes only by the over-advance rule of consume
C16_FastPath ==
    [][(op' = "read" /\ cap - pos >= arg')
           => (/\ srcCalls' = 0 /\ srcPos' = srcPos
               /\ ok' /\ ~panicked'
               /\ ret' = arg'
               /\ out' = Slice(buf, pos, pos + arg')
               /\ pos' = pos + arg'
               /\ cap' = cap /\ buf' = buf /\ ahead' = ahead
               /\ mark' = IF mark >= 0 /\ pos' > mark + ahead THEN Unset ELSE mark)]_vars

\* a read was served from the buffer alone and left bytes in it
C16_Witness ==
    op = "read" /\ srcCalls = 0 /\ arg > 0 /\ ret = arg /\ pos < cap

\* ---- C17 ----
\* C17: when mark(read_limit) returns, the mark is set and equals pos, ahead
\* is read_limit and the buffer is at least read_limit long; the fill of
\* the call does not clear the mark the call sets
C17_MarkPostcondition ==
    op = "mark" => (/\ ok
                    /\ mark >= 0 /\ mark = pos
                    /\ ahead = arg
                    /\ Len(buf) >= arg)

\* a mark call has grown the buffer and refilled it, and its mark stands
C17_Witness ==
    op = "mark" /\ filled /\ grew /\ arg > 0 /\ mark = pos /\ cap > 0

\* ---- C18 ----
\* C18: the buffer never gets shorter; after read(target) it is at least
\* target.length long; resize_buf keeps the bytes it had and zero-fills
\* the indices it adds
C18_BufferOnlyGrows ==
    [][/\ Len(buf') >= Len(buf)
       /\ (op' = "read" => Len(buf') >= arg')
       /\ \A n \in Len(buf)..MaxTarget :
             LET b == resize_buf(Reader, n).buf
             IN /\ Len(b) = n
                /\ SubSeq(b, 1, Len(buf)) = buf
                /\ \A i \in (Len(buf) + 1)..n : b[i] = 0
       /\ ((grew' /\ srcErr' /\ pos >= cap)
              => (/\ SubSeq(buf', 1, Len(buf)) = buf
                  /\ \A i \in (Len(buf) + 1)..Len(buf') : buf'[i] = 0))]_vars

\* a read has grown a buffer that held data, and the source then failed, so
\* that the buffer is as resize_buf left it
C18_Witness ==
    op = "read" /\ grew /\ srcErr /\ Len(buf) = arg /\ cap > 0 /\ pos = cap

\* ---- C19 ----
\* C19 as stated: read and mark call the source at most once, and a read
\* whose source call returns fewer bytes than the region it was given
\* returns fewer bytes than requested
C19_SingleRefill ==
    [][op' \in {"read", "mark"}
           => (/\ srcCalls' <= 1
               /\ (op' = "read" /\ filled'
                      /\ srcPos' - srcPos < read_region(Reader, arg'))
                     => ret' < arg')]_vars

\* C19 amended: read and mark call the source at most once, and a read
\* whose single fill leaves cap below target.length returns those cap
\* bytes, fewer than requested, without asking again
C19_SingleRefillShort ==
    [][op' \in {"read", "mark"}
           => (/\ srcCalls' <= 1
               /\ (op' = "read" /\ filled' /\ cap' < arg')
                     => (srcCalls' = 1 /\ ret' = cap' /\ ret' < arg'))]_vars

\* a read got a short answer from a source that had more, and returned
\* fewer bytes than requested after that one call
C19_Witness ==
    op = "read" /\ filled /\ srcCalls = 1 /\ ret > 0 /\ ret < arg
        /\ srcPos < Len(content)

\* ---- C20 ----
\* C20: a fill_buf whose source call fails leaves pos, cap, mark and the
\* bytes buffer() shows as they were
C20_FailedFillAtomic ==
    [][(op' = "fill_buf" /\ srcErr')
           => (/\ pos' = pos /\ cap' = cap /\ mark' = mark
               /\ Slice(buf', pos', cap') = buffer(Reader))]_vars

====
